---- MODULE Spec2Model ----
(***************************************************************************)
(* Actor / critic / actor-critic composition of chatgpt/rlhf/              *)
(* actor_critic.py.  Tensors of shape (B, T) are sequences of B rows, each *)
(* a sequence of T entries.  Every method call is one action; the state    *)
(* keeps the object attributes the methods read and a record of the last   *)
(* call: its arguments, how it ended, what it returned and which           *)
(* collaborators it invoked, in order.                                     *)
(***************************************************************************)
EXTENDS Integers, Sequences, FiniteSets, TLC

\* ---------------------------------------------------------------- bounds
MaxBatch == 1
MaxPrompt == 2
MaxSeqLen == 4
MaxNewTokens == 2
MaxToken == 1

VARIABLES tokenizer, config, acActor, critic, call, outcome, budget, result, events

vars == <<tokenizer, config, acActor, critic, call, outcome, budget, result, events>>

Vocab == 0..MaxToken

\* ------------------------------------------------------- tensor helpers
Min(a, b) == IF a <= b THEN a ELSE b

Max(a, b) == IF a >= b THEN a ELSE b

\* tensor.shape for a batch of equally long rows
Shape(x) == <<Len(x), IF Len(x) = 0 THEN 0 ELSE Len(x[1])>>

\* all tensors of shape (b, t) over the entries in S
Tensors(S, b, t) == [1..b -> [1..t -> S]]

\* Python row[start:], start of either sign
SliceFrom(row, start) ==
    LET n == Len(row)
        s == IF start < 0 THEN Max(n + start, 0) ELSE Min(start, n)
    IN  SubSeq(row, s + 1, n)

\* x[:, start:]
ColsFrom(x, start) == [b \in 1..Len(x) |-> SliceFrom(x[b], start)]

\* x[:, -k:]  (and x[:, -k:, :] for the logits, whose last axis is kept whole)
TailSlice(x, k) == ColsFrom(x, 0 - k)

\* row-wise concatenation [x, y]
Concat(x, y) == [b \in 1..Len(x) |-> x[b] \o y[b]]

Ones(b, t) == [i \in 1..b |-> [j \in 1..t |-> 1]]

\* ------------------------------------------------------------ tokenizer
None == 0 - 1

\* ActorModel.__init__: eos falls back to id 0, pad is the eos token
TokenizerAfterInit(eos) ==
    LET e == IF eos = None THEN 0 ELSE eos
    IN  [eos_token_id |-> e, pad_token_id |-> e]

\* (sequence != pad_token_id).long()
MaskOf(seq, pad) ==
    [b \in 1..Len(seq) |->
        [t \in 1..Len(seq[b]) |-> IF seq[b][t] # pad THEN 1 ELSE 0]]

\* --------------------------------------------------------------- config
NoConfig == [set |-> FALSE, temperature |-> 0, max_sequence_length |-> 0,
             max_tokens |-> 0]

Configs == [set : {TRUE}, temperature : {1},
            max_sequence_length : 1..MaxSeqLen, max_tokens : 0..MaxNewTokens]

\* ------------------------------------------------ ActorModel.generate
\* operands of the subtraction exchanged
MaxGenerationPossibleSwapped(c, L) == L - c.max_sequence_length

MaxGenerationPossible(c, L) == c.max_sequence_length - L

\* max in place of min
MaxCompletionMax(c, L) == Max(c.max_tokens, MaxGenerationPossible(c, L))

MaxCompletion(c, L) == Min(c.max_tokens, MaxGenerationPossible(c, L))

\* < in place of <=
BudgetExhaustedStrict(m) == m < 0

\* the guard of the raise
BudgetExhausted(m) == m <= 0

MaxLength(c, L) == L + MaxCompletion(c, L)

\* ----------------------------------------------------- call bookkeeping
NoResult == [kind |-> "none", actions |-> <<>>, actions_logits |-> <<>>,
             values |-> <<>>, sequences |-> <<>>, sequences_mask |-> <<>>]

\* one collaborator invocation (or derivation step) made by a method
Ev(who, ids, mask, n) == [who |-> who, ids |-> ids, mask |-> mask, n |-> n]

Ret(o, m, r, e) == [outcome |-> o, budget |-> m, result |-> r, events |-> e]

\* per-position output of the causal model: (batch, seq_len, vocab)
LogitsOf(ids) ==
    [b \in 1..Len(ids) |->
        [t \in 1..Len(ids[b]) |-> [head |-> "lm", pos |-> t, tok |-> ids[b][t]]]]

\* per-position output of the value head: (batch, seq_len)
ValuesOf(ids) ==
    [b \in 1..Len(ids) |->
        [t \in 1..Len(ids[b]) |->
            [head |-> "value", pos |-> t, tok |-> ids[b][t]]]]

\* what self.model.generate may return for a prompt and a max_length:
\* the prompt followed by at least one and at most max_length - L new tokens
\* (the prompt alone when max_length leaves no room)
SamplerOutputs(states, max_length) ==
    LET B == Len(states)
        L == Len(states[1])
    IN  IF max_length <= L
        THEN {states}
        ELSE UNION {{Concat(states, new) : new \in Tensors(Vocab, B, n)} :
                    n \in 1..(max_length - L)}

\* ---------------------------------------------------- ActorModel.forward
\* The mask is handed to the underlying model unchecked; with a mask of
\* another shape the library either raises or broadcasts (libRaises).
ActorForward(ids, mask, libRaises) ==
    LET e == <<Ev("actor.model", ids, mask, 0)>>
    IN  IF Shape(mask) # Shape(ids) /\ libRaises
        THEN Ret("RuntimeError", 0, NoResult, e)
        ELSE Ret("ok", 0,
                 [NoResult EXCEPT !.kind = "logits",
                                  !.actions_logits = LogitsOf(ids)], e)

\* --------------------------------------------------- CriticModel.forward
CriticForward(ids, mask, libRaises) ==
    LET e == <<Ev("critic.model", ids, mask, 0)>>
    IN  IF Shape(mask) # Shape(ids) /\ libRaises
        THEN Ret("RuntimeError", 0, NoResult, e)
        ELSE Ret("ok", 0,
                 [NoResult EXCEPT !.kind = "values",
                                  !.values = ValuesOf(ids)], e)

\* -------------------------------------------------- CriticModel.get_reward
\* forward(...)[:, -1]: the value at the last position of every row
CriticGetReward(ids, mask, libRaises) ==
    LET f == CriticForward(ids, mask, libRaises)
    IN  IF f.outcome # "ok"
        THEN f
        ELSE Ret("ok", 0,
                 [NoResult EXCEPT
                    !.kind = "reward",
                    !.values = [b \in 1..Len(ids) |->
                                  f.result.values[b][Len(f.result.values[b])]]],
                 f.events \o <<Ev("getitem", ids, mask, 0 - 1)>>)

\* ---------------------------------------------------- CriticModel.__init__
\* what AutoModel.from_pretrained hands back, as far as __init__ reads it
Encoders == [isModule : BOOLEAN, hasConfig : BOOLEAN, hasHeadSize : BOOLEAN]

\* Module.__init__ is never called, so assigning the encoder (an nn.Module)
\* at line 123 raises AttributeError.  With an encoder that is no nn.Module
\* the constructor goes on: line 133 reads self.model.config, line 135 reads
\* config.model_head_hidden_size (AttributeError when either is missing),
\* and line 141 names Rearrange, which is not defined (NameError).
CriticInit(enc) ==
    Ret(IF enc.isModule THEN "AttributeError"
        ELSE IF ~enc.hasConfig THEN "AttributeError"
        ELSE IF ~enc.hasHeadSize THEN "AttributeError"
        ELSE "NameError",
        0, NoResult, <<>>)

\* --------------------------------------------------- ActorModel.generate
\* out is what the sampler returns when it is reached
ActorGenerate(c, states, state_mask, out) ==
    LET L == Len(states[1])
        m == MaxCompletion(c, L)
    IN  IF ~c.set
        THEN Ret("AttributeError", 0, NoResult, <<>>)
        ELSE IF BudgetExhausted(m)
        THEN Ret("ValueError", m, NoResult, <<>>)
        ELSE Ret("ok", m,
                 [NoResult EXCEPT !.kind = "generate",
                                  !.actions = ColsFrom(out, L),
                                  !.sequences = out],
                 <<Ev("model.generate", states, state_mask, MaxLength(c, L))>>)

\* the sampler outputs ActorModel.generate can receive in a call
GenerateOutputs(c, states) ==
    IF c.set /\ ~BudgetExhausted(MaxCompletion(c, Len(states[1])))
    THEN SamplerOutputs(states, MaxLength(c, Len(states[1])))
    ELSE {states}

\* --------------------------------------------------- ActorCritic.forward
ActorCriticForward(ref, crit, sequences, sequences_mask, action_len, aRaises, cRaises) ==
    IF ref = "tuple"
    THEN Ret("TypeError", 0, NoResult, <<>>)
    ELSE LET a == ActorForward(sequences, sequences_mask, aRaises)
             v == CriticForward(sequences, sequences_mask, cRaises)
         IN  IF a.outcome # "ok"
             THEN Ret(a.outcome, 0, NoResult, a.events)
             ELSE IF crit = "none"
             THEN Ret("AttributeError", 0, NoResult, a.events)
             ELSE IF v.outcome # "ok"
             THEN Ret(v.outcome, 0, NoResult, a.events \o v.events)
             ELSE Ret("ok", 0,
                      [NoResult EXCEPT
                         !.kind = "forward",
                         !.actions_logits =
                             TailSlice(a.result.actions_logits, action_len),
                         !.values = TailSlice(v.result.values, action_len)],
                      a.events \o v.events
                        \o <<Ev("slice", sequences, sequences_mask, action_len)>>)

\* -------------------------------------------------- ActorCritic.generate
ActorCriticGenerate(ref, crit, c, pad, states, state_mask, out) ==
    IF ref = "tuple"
    THEN Ret("AttributeError", 0, NoResult, <<>>)
    ELSE LET g == ActorGenerate(c, states, state_mask, out)
             e1 == <<Ev("actor.generate", states, state_mask, 0)>> \o g.events
         IN  IF g.outcome # "ok"
             THEN Ret(g.outcome, g.budget, NoResult, e1)
             ELSE LET sequence == g.result.sequences
                      actions == g.result.actions
                      sequences_mask == MaskOf(sequence, pad)
                      action_len == Shape(actions)[2]
                      f == ActorCriticForward(ref, crit, sequence, sequences_mask,
                                              action_len, FALSE, FALSE)
                  IN  IF f.outcome # "ok"
                      THEN Ret(f.outcome, g.budget, NoResult,
                               e1 \o <<Ev("mask", sequence, sequences_mask, 0)>>
                                  \o f.events)
                      ELSE
                      Ret(f.outcome, g.budget,
                          [kind |-> "rollout",
                           actions |-> actions,
                           actions_logits |-> f.result.actions_logits,
                           values |-> f.result.values,
                           sequences |-> sequence,
                           sequences_mask |-> sequences_mask],
                          e1 \o <<Ev("mask", sequence, sequences_mask, 0)>>
                             \o f.events)

\* ---------------------------------------------------------------- inputs
\* one left-padded prompt row of length l: k leading pad tokens, then tok
PromptRow(l, k, tok, pad) == [t \in 1..l |-> IF t <= k THEN pad ELSE tok]

\* batches of prompts of unequal real length, left-padded to a common
\* length l (padding_side='left'); row b carries b - 1 more pad tokens
Prompts(pad) ==
    {[b \in 1..n |-> PromptRow(l, Min(k + b - 1, l), tok, pad)] :
        n \in 1..MaxBatch, l \in 1..MaxPrompt, k \in 0..MaxPrompt, tok \in Vocab}

\* attention masks a caller may pass with ids: the matching one, one that
\* is a column longer, and a single entry
Masks(ids, pad) ==
    {MaskOf(ids, pad), Ones(Len(ids), Len(ids[1]) + 1), Ones(1, 1)}

ActionLens == (0 - 1)..(MaxPrompt + 1)

NoCall == [op |-> "none", ids |-> <<>>, mask |-> <<>>, action_len |-> 0]

Call(op, ids, mask, k) == [op |-> op, ids |-> ids, mask |-> mask, action_len |-> k]

\* ----------------------------------------------------------------- state
\* after ActorModel(pretrained) and ActorCritic(actor): the actor has a
\* tokenizer and no config attribute; ActorCritic.actor is the one-element
\* tuple (actor,) that "self.actor = actor," stores; CriticModel(pretrained)
\* raises, so there is no critic instance and ActorCritic.critic is the
\* default None.  Nothing in the code rebinds either attribute.
Init ==
    /\ \E eos \in {None} \cup Vocab : tokenizer = TokenizerAfterInit(eos)
    /\ config = NoConfig
    /\ acActor = "tuple"
    /\ critic = "none"
    /\ call = NoCall
    /\ outcome = "none"
    /\ budget = 0
    /\ result = NoResult
    /\ events = <<>>

\* a method runs to its return or raise
Finish(c, r) ==
    /\ call' = c
    /\ outcome' = r.outcome
    /\ budget' = r.budget
    /\ result' = r.result
    /\ events' = r.events
    /\ UNCHANGED <<tokenizer, config, acActor, critic>>

\* the collaborator that owns the configuration attaches it to the actor
AttachConfig ==
    /\ call = NoCall
    /\ \E c \in Configs : config' = c
    /\ UNCHANGED <<tokenizer, acActor, critic, call, outcome, budget, result, events>>

\* the caller has taken what the call returned or raised; nothing of the
\* call is kept by the objects
Return ==
    /\ call # NoCall
    /\ call' = NoCall
    /\ outcome' = "none"
    /\ budget' = 0
    /\ result' = NoResult
    /\ events' = <<>>
    /\ UNCHANGED <<tokenizer, config, acActor, critic>>

CallActorForward ==
    /\ call = NoCall
    /\ \E ids \in Prompts(tokenizer.pad_token_id) :
         \E mask \in Masks(ids, tokenizer.pad_token_id) :
           \E libRaises \in BOOLEAN :
             Finish(Call("ActorModel.forward", ids, mask, 0),
                    ActorForward(ids, mask, libRaises))

\* CriticModel(pretrained): always raises, no instance comes to exist
ConstructCritic ==
    /\ call = NoCall
    /\ \E enc \in Encoders :
         Finish(Call("CriticModel.__init__", <<>>, <<>>, 0),
                CriticInit(enc))

CallActorGenerate ==
    /\ call = NoCall
    /\ \E states \in Prompts(tokenizer.pad_token_id) :
         \E state_mask \in {MaskOf(states, tokenizer.pad_token_id)} :
           \E out \in GenerateOutputs(config, states) :
             Finish(Call("ActorModel.generate", states, state_mask, 0),
                    ActorGenerate(config, states, state_mask, out))

CallActorCriticForward ==
    /\ call = NoCall
    /\ \E ids \in Prompts(tokenizer.pad_token_id) :
         \E mask \in Masks(ids, tokenizer.pad_token_id) :
           \E k \in ActionLens :
             \E aRaises \in BOOLEAN, cRaises \in BOOLEAN :
               Finish(Call("ActorCritic.forward", ids, mask, k),
                      ActorCriticForward(acActor, critic, ids, mask, k,
                                         aRaises, cRaises))

CallActorCriticGenerate ==
    /\ call = NoCall
    /\ \E states \in Prompts(tokenizer.pad_token_id) :
         \E state_mask \in {MaskOf(states, tokenizer.pad_token_id)} :
           \E out \in GenerateOutputs(config, states) :
             Finish(Call("ActorCritic.generate", states, state_mask, 0),
                    ActorCriticGenerate(acActor, critic, config,
                                        tokenizer.pad_token_id,
                                        states, state_mask, out))

Next ==
    \/ AttachConfig
    \/ CallActorForward
    \/ ConstructCritic
    \/ CallActorGenerate
    \/ CallActorCriticForward
    \/ CallActorCriticGenerate
    \/ Return

Spec == Init /\ [][Next]_vars

\* ------------------------------------------------------ shorthands
PromptLen == Shape(call.ids)[2]

RolledOut == call.op = "ActorCritic.generate" /\ result.kind = "rollout"

Generated == call.op = "ActorModel.generate" /\ result.kind = "generate"

Whos == [i \in 1..Len(events) |-> events[i].who]

SamplerInvoked == \E i \in 1..Len(events) : events[i].who = "model.generate"

ScoringInvoked ==
    \E i \in 1..Len(events) : events[i].who \in {"actor.model", "critic.model"}

\* the budget of the call in progress, from the configuration
Remaining == config.max_sequence_length - PromptLen

Allowed == IF config.max_tokens <= Remaining THEN config.max_tokens ELSE Remaining

\* a rollout asked for a prompt that leaves room to generate
ValidRollout ==
    call.op = "ActorCritic.generate" /\ config.set /\ Allowed > 0

\* ----------------------------------------------------------------- C1
\* C1: a call of the actor's generate whose budget
\* min(max_tokens, max_sequence_length - L) is <= 0 ends in the
\* budget-exhausted error (ValueError), has not invoked the sampler and
\* has returned nothing.
BudgetCheckedBeforeSampler ==
    (call.op \in {"ActorModel.generate", "ActorCritic.generate"}
        /\ config.set /\ Allowed <= 0
        /\ (call.op = "ActorCritic.generate" => acActor = "module"))
    => (outcome = "ValueError" /\ ~SamplerInvoked /\ result = NoResult)

BudgetExhaustedReached ==
    /\ call.op = "ActorModel.generate"
    /\ config.set /\ config.max_tokens > 0
    /\ PromptLen >= config.max_sequence_length
    /\ outcome = "ValueError"

\* ----------------------------------------------------------------- C4
\* C4: a successful generate or rollout on states of shape (B, L) returns
\* sequences of shape (B, L + n) and actions of shape (B, n) with
\* n <= min(max_tokens, max_sequence_length - L), so n <= max_tokens and the
\* sequence is no longer than max_sequence_length.
RolloutShapeAndLengthBound ==
    (RolledOut \/ Generated) =>
        LET n == Shape(result.actions)[2]
        IN  /\ Shape(result.sequences) = <<Len(call.ids), PromptLen + n>>
            /\ Shape(result.actions) = <<Len(call.ids), n>>
            /\ n <= Allowed
            /\ n <= config.max_tokens
            /\ PromptLen + n <= config.max_sequence_length

GenerateFillsBudget ==
    /\ Generated
    /\ config.max_tokens > Remaining
    /\ Shape(result.sequences)[2] = config.max_sequence_length
    /\ Shape(result.actions)[2] = Remaining

\* ----------------------------------------------------------------- C6
\* C6: with the configuration fixed, the budget computed for a prompt is no
\* larger than the budget of any shorter prompt, and a prompt of length
\* >= max_sequence_length makes generate raise the budget-exhausted error.
BudgetMonotone ==
    (call.op = "ActorModel.generate" /\ config.set) =>
        /\ \A l \in 0..PromptLen : MaxCompletion(config, l) >= budget
        /\ \A l \in 0..(MaxPrompt + MaxSeqLen) :
              MaxCompletion(config, l + 1) <= MaxCompletion(config, l)
        /\ budget = Allowed
        /\ PromptLen >= config.max_sequence_length => outcome = "ValueError"

BudgetShrunkByPrompt ==
    /\ call.op = "ActorModel.generate" /\ config.set
    /\ PromptLen >= 2
    /\ budget < MaxCompletion(config, PromptLen - 1)
    /\ budget >= 1

\* ----------------------------------------------------------------- C7
\* C7: a scoring call whose attention mask has another shape than the token
\* ids ends in a shape-mismatch error before any model computation.
ShapeMismatchRejected ==
    (call.op \in {"ActorModel.forward", "CriticModel.forward",
                  "ActorCritic.forward"}
        /\ Shape(call.mask) # Shape(call.ids)
        /\ (call.op = "ActorCritic.forward" => acActor = "module"))
    => (outcome = "ShapeMismatchError" /\ ~ScoringInvoked /\ result = NoResult)

ForwardReturnsActionSlices ==
    (call.op = "ActorCritic.forward" /\ Shape(call.mask) = Shape(call.ids)) =>
        /\ outcome = "ok"
        /\ result.kind = "forward"
        /\ \A b \in 1..Len(call.ids) :
            /\ Len(result.actions_logits[b]) = call.action_len
            /\ Len(result.values[b]) = call.action_len
            /\ \A i \in 1..call.action_len :
                /\ result.actions_logits[b][i] =
                     LogitsOf(call.ids)[b][PromptLen - call.action_len + i]
                /\ result.values[b][i] =
                     ValuesOf(call.ids)[b][PromptLen - call.action_len + i]

RolloutStepsInOrder ==
    /\ call.op = "ActorCritic.generate" =>
          Len(events) > 0 /\ events[1].who = "actor.generate"
    /\ ValidRollout =>
          /\ RolledOut
          /\ Whos = <<"actor.generate", "model.generate", "mask",
                      "actor.model", "critic.model", "slice">>
          /\ \A i \in {3, 4, 5} :
                /\ events[i].ids = result.sequences
                /\ events[i].mask = result.sequences_mask

====
